---------------------------- MODULE Spec2Model ----------------------------
(* Sidecar orchestration of trove (src-tauri/src/commands/agent.rs):        *)
(* the generate_app / edit_app commands, run_sidecar's event loop, the      *)
(* stdout protocol parser and cancel_generation, as one state machine.      *)
(*                                                                          *)
(* A Rust String is a sequence of one-character strings; a chunk is a       *)
(* sequence of bytes, an ASCII byte being written as its character.         *)
(* An error message built from a literal is the one-element sequence        *)
(* holding the literal; "Sidecar exited with code N" is the literal         *)
(* followed by N.  Option<T> is <<>> (None) or <<x>> (Some(x)).             *)
(* A poisoned ACTIVE_CHILD mutex (a panic while it is held) is not          *)
(* modelled: every lock() succeeds.                                         *)
EXTENDS Integers, Sequences, FiniteSets, TLC

(***************************************************************************)
(* Bounds of the model                                                     *)
(***************************************************************************)
\* Requests (generate_app / edit_app invocations) in one behaviour.
NumSessions == 2
\* Stdout chunks one sidecar delivers.
MaxEvents == 3

Sessions == 1..NumSessions
\* The most chunks a byte stream is divided into
MaxChunks == 3
\* The apps there are, and the most calls of save_app
NumApps == 2
MaxSaves == 2
MaxDeletes == 1
AppIds == 1..NumApps

(***************************************************************************)
(* Program constants                                                       *)
(***************************************************************************)
\* agent.rs:16 sets 10 * 1024 * 1024; scaled so that a few short lines
\* reach the cap.
MAX_HTML_BYTES == 4

HTML_START == <<"H", "T", "M", "L", "_", "S", "T", "A", "R", "T">>
HTML_END == <<"H", "T", "M", "L", "_", "E", "N", "D">>
ERROR_PREFIX == <<"E", "R", "R", "O", "R", ":">>
PROGRESS_PREFIX == <<"P", "R", "O", "G", "R", "E", "S", "S", ":">>

MSG_ALREADY_RUNNING == <<"Another generation is already running">>
MSG_CANCELLED == <<"Generation cancelled">>
MSG_SIZE == <<"Generated HTML exceeded size limit">>
MSG_NO_HTML == <<"No HTML content generated">>
MSG_RUNTIME == <<"Sidecar error: ", "io">>
MSG_NOT_FOUND == <<"Sidecar 'trove-sidecar' not found next to executable or in resources">>
MSG_NOT_FILE == <<"Sidecar path is not a file">>
MSG_NOT_EXEC == <<"Sidecar is not marked executable">>
MSG_SPAWN == <<"Failed to spawn sidecar: ", "io">>
MSG_APP_NOT_FOUND == <<"App not found: ", "id">>
MSG_HTML_NOT_FOUND == <<"App HTML file not found">>
MSG_SAVE == <<"Failed to write temp file: ", "io">>
MsgExit(code) == <<"Sidecar exited with code ", ToString(code)>>

(***************************************************************************)
(* Result<T, String> and Option<T>                                         *)
(***************************************************************************)
None == <<>>
Some(x) == <<x>>
Ok(v) == [tag |-> "ok", val |-> v]
Err(m) == [tag |-> "err", val |-> m]
Pending == [tag |-> "none", val |-> <<>>]

(***************************************************************************)
(* Strings                                                                 *)
(***************************************************************************)
\* char::is_whitespace on the characters the model uses
WhiteSpace == {" ", "\t", "\n", "\r"}

\* UTF-8: the two bytes of U+00E9, and U+FFFD, which lossy decoding puts in
\* the place of an invalid byte
LEAD == "0xC3"
CONT == "0xA9"
EACUTE == "U+00E9"
REPLACEMENT == "U+FFFD"

\* char::len_utf8
len_utf8(c) == IF c = EACUTE THEN 2 ELSE IF c = REPLACEMENT THEN 3 ELSE 1

\* str::len: the length in bytes, the sum of len_utf8 over the characters
StrLen(s) ==
    Len(s) + (len_utf8(EACUTE) - 1) * Cardinality({i \in 1..Len(s) : s[i] = EACUTE})
           + (len_utf8(REPLACEMENT) - 1) * Cardinality({i \in 1..Len(s) : s[i] = REPLACEMENT})

\* String::from_utf8_lossy
RECURSIVE from_utf8_lossy(_)
from_utf8_lossy(bytes) ==
    IF bytes = <<>> THEN <<>>
    ELSE IF Head(bytes) = LEAD
         THEN IF Len(bytes) >= 2 /\ bytes[2] = CONT
              THEN <<EACUTE>> \o from_utf8_lossy(SubSeq(bytes, 3, Len(bytes)))
              ELSE <<REPLACEMENT>> \o from_utf8_lossy(Tail(bytes))
         ELSE IF Head(bytes) = CONT
              THEN <<REPLACEMENT>> \o from_utf8_lossy(Tail(bytes))
              ELSE <<Head(bytes)>> \o from_utf8_lossy(Tail(bytes))

RECURSIVE trim_start(_)
trim_start(s) ==
    IF s # <<>> /\ Head(s) \in WhiteSpace THEN trim_start(Tail(s)) ELSE s

RECURSIVE trim_end(_)
trim_end(s) ==
    IF s # <<>> /\ s[Len(s)] \in WhiteSpace
    THEN trim_end(SubSeq(s, 1, Len(s) - 1))
    ELSE s

\* str::trim
trim(s) == trim_end(trim_start(s))

\* str::trim_end_matches('\r')
RECURSIVE trim_end_matches_cr(_)
trim_end_matches_cr(s) ==
    IF s # <<>> /\ s[Len(s)] = "\r"
    THEN trim_end_matches_cr(SubSeq(s, 1, Len(s) - 1))
    ELSE s

\* str::starts_with
starts_with(s, p) == Len(s) >= Len(p) /\ SubSeq(s, 1, Len(p)) = p

\* str::strip_prefix
strip_prefix(s, p) ==
    IF starts_with(s, p) THEN Some(SubSeq(s, Len(p) + 1, Len(s))) ELSE None

\* str::find('\n'): the index of the first newline, 0 when there is none
find_newline(s) ==
    IF \E i \in 1..Len(s) : s[i] = "\n"
    THEN CHOOSE i \in 1..Len(s) : s[i] = "\n" /\ \A j \in 1..(i - 1) : s[j] # "\n"
    ELSE 0

(***************************************************************************)
(* The protocol parser                                                     *)
(***************************************************************************)
ParserState(html, collecting, error) ==
    [html_content |-> html, collecting_html |-> collecting, error_occurred |-> error]

\* A bug: every ERROR: line overwrites the recorded error
record_error_overwrite(error_occurred, msg) == Some(msg)

\* agent.rs:94-96: the first error is kept
record_error(error_occurred, msg) ==
    IF error_occurred = None THEN Some(msg) ELSE error_occurred

\* A bug: no cap
exceeds_limit_never(html_content, raw_line) == FALSE

\* agent.rs:100-101: whether appending the line would pass the cap
exceeds_limit(html_content, raw_line) ==
    LET extra == IF html_content = <<>> THEN 0 ELSE 1
    IN  StrLen(html_content) + StrLen(raw_line) + extra > MAX_HTML_BYTES

\* A bug: no separator between the lines
push_line_unseparated(html_content, raw_line) == html_content \o raw_line

\* agent.rs:104-107: the accumulator after the line is appended
push_line(html_content, raw_line) ==
    (IF html_content = <<>> THEN <<>> ELSE html_content \o <<"\n">>) \o raw_line

\* A bug: PROGRESS: lines are not set apart, and a line is appended whether
\* or not it is inside the HTML region
process_sidecar_output_line_unfiltered(raw_line, html_content, collecting_html, error_occurred) ==
    LET line == trim(raw_line)
        same == ParserState(html_content, collecting_html, error_occurred)
    IN  IF line = HTML_START
        THEN [res |-> Ok(<<>>), st |-> ParserState(html_content, TRUE, error_occurred)]
        ELSE IF line = HTML_END
        THEN [res |-> Ok(<<>>), st |-> ParserState(html_content, FALSE, error_occurred)]
        ELSE IF strip_prefix(line, ERROR_PREFIX) # None
        THEN [res |-> Ok(<<>>),
              st |-> ParserState(html_content, collecting_html,
                                 record_error(error_occurred,
                                              strip_prefix(line, ERROR_PREFIX)[1]))]
        ELSE IF exceeds_limit(html_content, raw_line)
        THEN [res |-> Err(MSG_SIZE), st |-> same]
        ELSE [res |-> Ok(<<>>),
              st |-> ParserState(push_line(html_content, raw_line),
                                 collecting_html, error_occurred)]

\* process_sidecar_output_line: the Result and the three &mut arguments
process_sidecar_output_line(raw_line, html_content, collecting_html, error_occurred) ==
    LET line == trim(raw_line)
        same == ParserState(html_content, collecting_html, error_occurred)
    IN  IF starts_with(line, PROGRESS_PREFIX)
        THEN [res |-> Ok(<<>>), st |-> same]
        ELSE IF line = HTML_START
        THEN [res |-> Ok(<<>>), st |-> ParserState(html_content, TRUE, error_occurred)]
        ELSE IF line = HTML_END
        THEN [res |-> Ok(<<>>), st |-> ParserState(html_content, FALSE, error_occurred)]
        ELSE IF strip_prefix(line, ERROR_PREFIX) # None
        THEN [res |-> Ok(<<>>),
              st |-> ParserState(html_content, collecting_html,
                                 record_error(error_occurred,
                                              strip_prefix(line, ERROR_PREFIX)[1]))]
        ELSE IF collecting_html
        THEN IF exceeds_limit(html_content, raw_line)
             THEN [res |-> Err(MSG_SIZE), st |-> same]
             ELSE [res |-> Ok(<<>>),
                   st |-> ParserState(push_line(html_content, raw_line),
                                      collecting_html, error_occurred)]
        ELSE [res |-> Ok(<<>>), st |-> same]

\* The while loop of process_sidecar_stdout_chunk: one line per round, the
\* line drained only after the parser accepted it.  lines: the lines passed
\* to process_sidecar_output_line, in order
RECURSIVE drain_lines(_, _, _, _)
drain_lines(stdout_buffer, html_content, collecting_html, error_occurred) ==
    LET newline_idx == find_newline(stdout_buffer) IN
    IF newline_idx = 0
    THEN [res |-> Ok(<<>>), buf |-> stdout_buffer,
          st |-> ParserState(html_content, collecting_html, error_occurred),
          lines |-> <<>>]
    ELSE LET upto == SubSeq(stdout_buffer, 1, newline_idx - 1)
             line == IF upto # <<>> /\ upto[Len(upto)] = "\r"
                     THEN SubSeq(upto, 1, Len(upto) - 1)
                     ELSE upto
             r == process_sidecar_output_line(line, html_content, collecting_html,
                                              error_occurred)
             rest == drain_lines(SubSeq(stdout_buffer, newline_idx + 1, Len(stdout_buffer)),
                                 r.st.html_content, r.st.collecting_html,
                                 r.st.error_occurred)
         IN  IF r.res.tag = "err"
             THEN [res |-> r.res, buf |-> stdout_buffer, st |-> r.st, lines |-> <<line>>]
             ELSE [rest EXCEPT !.lines = <<line>> \o @]

\* A bug: the pending partial line is forgotten when a chunk arrives
process_sidecar_stdout_chunk_unbuffered(chunk, stdout_buffer, html_content, collecting_html, error_occurred) ==
    drain_lines(from_utf8_lossy(chunk), html_content, collecting_html, error_occurred)

\* process_sidecar_stdout_chunk
process_sidecar_stdout_chunk(chunk, stdout_buffer, html_content, collecting_html, error_occurred) ==
    drain_lines(stdout_buffer \o from_utf8_lossy(chunk), html_content,
                collecting_html, error_occurred)

\* agent.rs:240-251: at the end of the stream the pending partial line goes
\* through the parser; the buffer is cleared when the parser accepted it
flush_trailing(stdout_buffer, html_content, collecting_html, error_occurred) ==
    IF stdout_buffer = <<>>
    THEN [res |-> Ok(<<>>), buf |-> stdout_buffer,
          st |-> ParserState(html_content, collecting_html, error_occurred),
          lines |-> <<>>]
    ELSE LET trailing == trim_end_matches_cr(stdout_buffer)
             r == process_sidecar_output_line(trailing, html_content, collecting_html,
                                              error_occurred)
         IN  [res |-> r.res,
              buf |-> IF r.res.tag = "err" THEN stdout_buffer ELSE <<>>,
              st |-> r.st,
              lines |-> <<trailing>>]

(***************************************************************************)
(* Request validation (models/app.rs)                                      *)
(***************************************************************************)
APP_NAME_MAX_LENGTH == 60
APP_PROMPT_MAX_LENGTH == 2000

\* char::is_control on the characters the model uses
is_control(ch) == ch \in {"NUL", "\t", "\n", "\r", "ESC"}

\* validate_name_prompt
validate_name_prompt(name, prompt) ==
    LET trimmed_name == trim(name)
        trimmed_prompt == trim(prompt)
    IN  IF trimmed_name = <<>> THEN Err(<<"App name is required">>)
        ELSE IF trimmed_prompt = <<>> THEN Err(<<"Prompt is required">>)
        ELSE IF StrLen(trimmed_name) > APP_NAME_MAX_LENGTH
        THEN Err(<<"App name must be at most ", ToString(APP_NAME_MAX_LENGTH), " characters">>)
        ELSE IF StrLen(trimmed_prompt) > APP_PROMPT_MAX_LENGTH
        THEN Err(<<"Prompt must be at most ", ToString(APP_PROMPT_MAX_LENGTH), " characters">>)
        ELSE IF \E i \in 1..Len(trimmed_name) : is_control(trimmed_name[i])
        THEN Err(<<"App name contains invalid characters">>)
        ELSE IF \E i \in 1..Len(trimmed_prompt) :
                    \/ trimmed_prompt[i] = "NUL"
                    \/ /\ is_control(trimmed_prompt[i])
                       /\ trimmed_prompt[i] \notin {"\n", "\r", "\t"}
        THEN Err(<<"Prompt contains invalid characters">>)
        ELSE Ok(<<>>)

\* The names and prompts a request is made with
Repeat(ch, n) == [i \in 1..n |-> ch]
Names == {<<>>, <<" ", " ">>, <<" ", "n", " ">>, <<"n", "\t", "m">>,
          Repeat("n", APP_NAME_MAX_LENGTH), Repeat("n", APP_NAME_MAX_LENGTH + 1)}
Prompts == {<<>>, <<"\n">>, <<"p", "\n", "q">>, <<"p", "ESC">>, <<"NUL", "p">>,
            Repeat("p", APP_PROMPT_MAX_LENGTH), Repeat("p", APP_PROMPT_MAX_LENGTH + 1)}

\* agent.rs:331-333 and 361-363: what the validation of a request returns,
\* over these names and prompts
ValidationResults(names, prompts) ==
    {validate_name_prompt(trim(name), trim(prompt)) : name \in names, prompt \in prompts}

(***************************************************************************)
(* Sidecar resolution                                                      *)
(***************************************************************************)
\* What is found at a candidate path
CandidateState == {"missing", "directory", "not_executable", "executable"}
\* The candidates in the order resolve_sidecar_path tries them: next to the
\* executable, the resources directory, the development fallback (stays
\* "missing" where the build has none)
CandidateLists == [1..3 -> CandidateState]

\* A bug: whatever exists at the path is accepted
validate_sidecar_executable_lenient(c) == Ok(<<>>)

\* validate_sidecar_executable
validate_sidecar_executable(c) ==
    IF c = "missing" THEN Err(<<"Failed to inspect sidecar: ", "io">>)
    ELSE IF c = "directory" THEN Err(MSG_NOT_FILE)
    ELSE IF c = "not_executable" THEN Err(MSG_NOT_EXEC)
    ELSE Ok(<<>>)

\* resolve_sidecar_path, from candidate i on
RECURSIVE resolve_from(_, _)
resolve_from(cands, i) ==
    IF i > Len(cands) THEN Err(MSG_NOT_FOUND)
    ELSE IF cands[i] # "missing"
         THEN IF validate_sidecar_executable(cands[i]).tag = "err"
              THEN validate_sidecar_executable(cands[i])
              ELSE Ok(<<i>>)
         ELSE resolve_from(cands, i + 1)

resolve_sidecar_path(cands) == resolve_from(cands, 1)

(***************************************************************************)
(* The sidecar's stdout                                                    *)
(***************************************************************************)
\* The chunks a CommandEvent::Stdout may carry
Chunks ==
    { HTML_START \o <<"\n", " ", "a", "\n">>,
      <<"a", "a", "\r", "\n">> \o HTML_END \o <<"\n">>,
      <<"b", "\n">>,
      ERROR_PREFIX \o <<"e", "\n">>,
      <<" ">> \o ERROR_PREFIX \o <<"f", "\r", "\n", "b">>,
      HTML_START \o <<"\n", " ", "\n">>,
      PROGRESS_PREFIX \o <<"p", "\n">> }

\* Chunks of whole lines: enough for every outcome of a session
LineChunks ==
    { HTML_START \o <<"\n", " ", "a", "\n">>,
      <<"a", "a", "\n">>,
      ERROR_PREFIX \o <<"e", "\n">> }

\* Byte streams a sidecar may write to its stdout
Streams ==
    { PROGRESS_PREFIX \o <<"\n">> \o HTML_START \o <<"\n", " ", "a", "\r", "\n">>
          \o HTML_END \o <<"\n">>,
      HTML_START \o <<"\n", "\n", "a", "b", "\n">>,
      ERROR_PREFIX \o <<"\n">> \o ERROR_PREFIX \o <<"f", "\n">>,
      <<LEAD, CONT, "\n">> \o HTML_START \o <<"\n", LEAD, CONT, "\n">>,
      HTML_START \o <<"\n", "a", "b", "\n", "a", "b", "c", "\n">>,
      HTML_START \o <<"\n", "a", "\r", "\r", "\n", "b", "\r">>,
      <<" ">> \o ERROR_PREFIX \o <<"e", " ", "\n">> \o HTML_START \o <<"\n">>
          \o ERROR_PREFIX \o <<"f", "\n", "b">>,
      HTML_START \o <<"\n", "a", "\n">> \o HTML_END \o <<"\n", "b", "\n">>
          \o HTML_START \o <<"\n", "c">>,
      HTML_START \o <<"\n", "a", "b", "\n", "a", "b", "c">> }

\* The stream cut after cuts[1] <= cuts[2] <= ... bytes; empty pieces are
\* left out, an empty chunk changes neither the buffer nor the parser
Pieces(stream, cuts) ==
    LET n == Len(cuts)
        from(i) == IF i = 1 THEN 1 ELSE cuts[i - 1] + 1
        upto(i) == IF i = n + 1 THEN Len(stream) ELSE cuts[i]
    IN  SelectSeq([i \in 1..(n + 1) |-> SubSeq(stream, from(i), upto(i))],
                  LAMBDA piece : piece # <<>>)

\* Every division of the stream into at most MaxChunks chunks
Divisions(stream) ==
    { Pieces(stream, cuts) :
        cuts \in { f \in [1..(MaxChunks - 1) -> 0..Len(stream)] :
                      \A i \in 1..(MaxChunks - 2) : f[i] <= f[i + 1] } }

\* status.code of a CommandEvent::Terminated
ExitCodes == {None, Some(0), Some(1), Some(2)}
CodeText(code) == IF code = None THEN "none" ELSE ToString(code[1])

(***************************************************************************)
(* The environment of a request: what the caller passes, what the file     *)
(* system holds and what the sidecar does.  history: whether the chunks    *)
(* received are recorded in fed, and so bounded by MaxEvents.              *)
(***************************************************************************)
\* Every input the model has
Rich ==
    [ validations |-> ValidationResults(Names, Prompts),
      lookups |-> {"generate", "edit", "edit_no_app", "edit_no_html"},
      candidates |-> CandidateLists,
      chunks |-> Chunks,
      codes |-> ExitCodes,
      history |-> TRUE ]

\* One input for each path through a request
Lean ==
    [ validations |-> ValidationResults({<<>>, <<" ", "n", " ">>}, {<<"p", "\n", "q">>}),
      lookups |-> {"generate", "edit", "edit_no_app"},
      candidates |-> {<<"executable", "missing", "missing">>,
                      <<"missing", "missing", "missing">>},
      chunks |-> LineChunks,
      codes |-> {None, Some(0), Some(1)},
      history |-> FALSE ]

(***************************************************************************)
(* State                                                                   *)
(***************************************************************************)
VARIABLES
    GENERATION_CANCELLED,   \* agent.rs:13
    GENERATION_ACTIVE,      \* agent.rs:14
    ACTIVE_CHILD,           \* agent.rs:15: None, or Some(s): the child of request s
    pc,                     \* where each request's command is
    result,                 \* run_sidecar's, then the command's, Result
    child,                  \* the sidecar of each request's run_sidecar call:
                            \* "none", "spawned", "killed"
    html_content,           \* run_sidecar's locals, agent.rs:185-188
    collecting_html,
    error_occurred,
    stdout_buffer,
    events,                 \* what window.emit has sent
    cpc,                    \* where cancel_generation is
    fed,                    \* history: the stdout chunks run_sidecar has received
    ended,                  \* history: how the event stream of run_sidecar ended:
                            \* "running", "closed", or the status.code
    cancelSeen,             \* history: a cancel stored its flag while the request
                            \* held the guard ("active") or polled ("streaming");
                            \* kept until the command returns
    framer,                 \* the framer and the parser fed a stream chunk by
                            \* chunk, as run_sidecar's loop and the tests at
                            \* agent.rs:411-462 feed them: the chunks, the next
                            \* one, the four locals, the last Result; history:
                            \* the lines handed to the parser so far, and the
                            \* one the final flush handed
    resolution,             \* resolve_sidecar_path on its own: the candidates
                            \* and the Result
    disk,                   \* the apps directory: what each path holds, None
                            \* where there is no file
    saving,                 \* save_app: where it is, its arguments and locals,
                            \* its Result; history: the number of calls, and
                            \* the stored state before the call and the one
                            \* the call is to leave
    deleting                \* delete_app: where it is, its argument and
                            \* locals, its Result; history: the apps it has
                            \* returned Ok for

session == <<GENERATION_CANCELLED, GENERATION_ACTIVE, ACTIVE_CHILD, pc, result, child,
             html_content, collecting_html, error_occurred, stdout_buffer, events,
             cpc, fed, ended, cancelSeen>>
harness == <<framer, resolution, disk, saving, deleting>>
vars == <<session, harness>>

locals == <<html_content, collecting_html, error_occurred, stdout_buffer>>
globals == <<GENERATION_CANCELLED, GENERATION_ACTIVE, ACTIVE_CHILD>>

\* Between GenerationGuard::acquire succeeding and the guard's drop
Holding == {"resolve", "spawn", "publish", "loop", "cancel_kill", "recv", "kill",
            "flush", "finalize", "drop_child", "drop_guard"}
\* In the event loop, the session not yet decided
Streaming == {"loop", "recv"}

\* agent.rs:137-145: the payloads of the two events; the app of request s is s
GenerationError(message) == [name |-> "generation-error", payload |-> message]
GenerationComplete(s) == [name |-> "generation-complete", payload |-> <<ToString(s)>>]

\* The framer before the first chunk of a division
FramerStart(chunks) ==
    [ chunks |-> chunks, next |-> 1,
      stdout_buffer |-> <<>>, html_content |-> <<>>, collecting_html |-> FALSE,
      error_occurred |-> None,
      res |-> Ok(<<>>), handed |-> <<>>, flushed |-> FALSE, trailing |-> <<>> ]

\* resolve_sidecar_path not yet called on these candidates
ResolutionStart(cands) == [candidates |-> cands, result |-> Pending]

\* apps.rs:75-77 and 100-102, storage.rs:9-14, utils.rs:17-18: the paths
get_index_path == <<"apps.json">>
get_app_html_path(id) == <<ToString(id), ".html">>
get_storage_path(id) == <<ToString(id), ".data.json">>
tmp_path(path) == path \o <<".tmp">>
Paths ==
    {get_index_path, tmp_path(get_index_path)}
        \cup {get_app_html_path(id) : id \in AppIds}
        \cup {tmp_path(get_app_html_path(id)) : id \in AppIds}
        \cup {get_storage_path(id) : id \in AppIds}

\* utils.rs:20-21: what a failed fs::write may leave in the file for a path:
\* for the index, text that does not parse; for an HTML file, a part of it
Truncated(path) ==
    IF path = get_index_path THEN <<[id |-> 0, rev |-> 0]>> ELSE 0 - 1

\* apps.rs:85-89: whether the index file, if there is one, parses
index_parses(d) == d[get_index_path] # Some(Truncated(get_index_path))

\* apps.rs:79-90: the index read from the disk, empty when there is no file
load_index(d) == IF d[get_index_path] = None THEN <<>> ELSE d[get_index_path][1]

\* apps.rs:158-162: the entry of the app replaced where it is, else pushed;
\* an entry is the id and the revision of the metadata
upsert(apps, id, rev) ==
    IF \E i \in 1..Len(apps) : apps[i].id = id
    THEN [i \in 1..Len(apps) |-> IF apps[i].id = id THEN [id |-> id, rev |-> rev]
                                  ELSE apps[i]]
    ELSE Append(apps, [id |-> id, rev |-> rev])

\* models/app.rs:88-94: the first entry with the id taken out, if there is one
remove(apps, id) ==
    IF \E i \in 1..Len(apps) : apps[i].id = id
    THEN LET pos == CHOOSE k \in 1..Len(apps) :
                       apps[k].id = id /\ \A j \in 1..(k - 1) : apps[j].id # id
         IN  Some(SubSeq(apps, 1, pos - 1) \o SubSeq(apps, pos + 1, Len(apps)))
    ELSE None

\* What list_apps and get_app_path can see: the index entries, and for each
\* app what its HTML file holds
Stored(d) ==
    [apps |-> load_index(d), html |-> [id \in AppIds |-> d[get_app_html_path(id)]]]

\* An apps directory with nothing in it, and save_app never called
EmptyDisk == [path \in Paths |-> None]
SavingStart ==
    [ pc |-> "idle", app |-> 0, rev |-> 0, index |-> <<>>, path |-> <<>>,
      contents |-> <<>>, result |-> Pending, calls |-> 0,
      before |-> Stored(EmptyDisk), after |-> Stored(EmptyDisk),
      lookup |-> None ]

\* delete_app never called
DeletingStart ==
    [ pc |-> "idle", app |-> 0, contents |-> <<>>, result |-> Pending, calls |-> 0,
      deleted |-> {} ]

\* An apps directory after every app has been generated once, the apps in
\* storing having used their storage
GeneratedDisk(storing) ==
    [path \in Paths |->
        IF path = get_index_path THEN Some([i \in 1..NumApps |-> [id |-> i, rev |-> 0]])
        ELSE IF \E id \in AppIds : path = get_app_html_path(id) THEN Some(0)
        ELSE IF \E id \in storing : path = get_storage_path(id) THEN Some(0)
        ELSE None]

InitSession ==
    /\ GENERATION_CANCELLED = FALSE
    /\ GENERATION_ACTIVE = FALSE
    /\ ACTIVE_CHILD = None
    /\ pc = [s \in Sessions |-> "idle"]
    /\ result = [s \in Sessions |-> Pending]
    /\ child = [s \in Sessions |-> "none"]
    /\ html_content = [s \in Sessions |-> <<>>]
    /\ collecting_html = [s \in Sessions |-> FALSE]
    /\ error_occurred = [s \in Sessions |-> None]
    /\ stdout_buffer = [s \in Sessions |-> <<>>]
    /\ events = {}
    /\ cpc = "idle"
    /\ fed = [s \in Sessions |-> <<>>]
    /\ ended = [s \in Sessions |-> "running"]
    /\ cancelSeen = [s \in Sessions |-> "none"]

Init ==
    /\ InitSession
    /\ framer = FramerStart(<<>>)
    /\ resolution = ResolutionStart(<<>>)
    /\ disk = EmptyDisk
    /\ saving = SavingStart
    /\ deleting = DeletingStart

(***************************************************************************)
(* Shared operations                                                       *)
(***************************************************************************)
\* A bug: the flag is stored without being compared
compare_exchange_blind(current) == [ok |-> TRUE, value |-> TRUE]

\* AtomicBool::compare_exchange(false, true): whether it succeeded, and the
\* value it leaves
compare_exchange(current) ==
    IF current = FALSE THEN [ok |-> TRUE, value |-> TRUE]
    ELSE [ok |-> FALSE, value |-> current]

\* A bug: the handle is taken and dropped, the child lives on
take_without_kill(slot, children) == [slot |-> None, children |-> children]

\* guard.take() followed by child.kill(), as kill_active_child and
\* cancel_generation do it under the lock: the slot and the children after it
take_and_kill(slot, children) ==
    IF slot # None
    THEN [slot |-> None, children |-> [children EXCEPT ![slot[1]] = "killed"]]
    ELSE [slot |-> slot, children |-> children]

\* A bug: the handle is left in the slot
child_cleanup_keep(slot) == slot

\* Drop for ChildCleanup: guard.take()
child_cleanup_drop(slot) == None

\* A bug: the flag is left set
generation_guard_keep == TRUE

\* Drop for GenerationGuard: the value stored to GENERATION_ACTIVE
generation_guard_drop == FALSE

\* The value generate_app and edit_app store to GENERATION_CANCELLED on
\* entry, given the value it has
reset_cancelled(current) == FALSE

\* The locals of run_sidecar as it declares them
ResetLocals(s) ==
    /\ html_content' = [html_content EXCEPT ![s] = <<>>]
    /\ collecting_html' = [collecting_html EXCEPT ![s] = FALSE]
    /\ error_occurred' = [error_occurred EXCEPT ![s] = None]
    /\ stdout_buffer' = [stdout_buffer EXCEPT ![s] = <<>>]

SetParser(s, st) ==
    /\ html_content' = [html_content EXCEPT ![s] = st.html_content]
    /\ collecting_html' = [collecting_html EXCEPT ![s] = st.collecting_html]
    /\ error_occurred' = [error_occurred EXCEPT ![s] = st.error_occurred]

(***************************************************************************)
(* generate_app / edit_app                                                 *)
(***************************************************************************)
\* A bug: the guard is taken before the validation and kept when it fails
StartGuardFirst(s, env) ==
    /\ pc[s] = "idle"
    /\ GENERATION_CANCELLED' = reset_cancelled(GENERATION_CANCELLED)
    /\ GENERATION_ACTIVE' = TRUE
    /\ \E v \in env.validations :
          IF v.tag = "err"
          THEN /\ result' = [result EXCEPT ![s] = v]
               /\ pc' = [pc EXCEPT ![s] = "done"]
          ELSE /\ result' = result
               /\ pc' = [pc EXCEPT ![s] = "resolve"]
    /\ UNCHANGED <<ACTIVE_CHILD, child, locals, events, cpc, fed, cancelSeen, ended>>
    /\ UNCHANGED harness

\* agent.rs:329-335 and 359-376: the flag reset, the validation and, for
\* edit_app, the lookup of the app and of its HTML file
Start(s, env) ==
    /\ pc[s] = "idle"
    /\ GENERATION_CANCELLED' = reset_cancelled(GENERATION_CANCELLED)
    /\ \E v \in env.validations, lookup \in env.lookups :
          IF v.tag = "err"
          THEN /\ result' = [result EXCEPT ![s] = v]
               /\ pc' = [pc EXCEPT ![s] = "done"]
          ELSE IF lookup = "edit_no_app"
          THEN /\ result' = [result EXCEPT ![s] = Err(MSG_APP_NOT_FOUND)]
               /\ pc' = [pc EXCEPT ![s] = "done"]
          ELSE IF lookup = "edit_no_html"
          THEN /\ result' = [result EXCEPT ![s] = Err(MSG_HTML_NOT_FOUND)]
               /\ pc' = [pc EXCEPT ![s] = "done"]
          ELSE /\ result' = result
               /\ pc' = [pc EXCEPT ![s] = "acquire"]
    /\ UNCHANGED <<GENERATION_ACTIVE, ACTIVE_CHILD, child, locals, events, cpc, fed,
                   cancelSeen, ended>>
    /\ UNCHANGED harness

\* agent.rs:154: GenerationGuard::acquire()?
Acquire(s) ==
    /\ pc[s] = "acquire"
    /\ LET cas == compare_exchange(GENERATION_ACTIVE) IN
       /\ GENERATION_ACTIVE' = cas.value
       /\ IF cas.ok
          THEN /\ pc' = [pc EXCEPT ![s] = "resolve"]
               /\ result' = result
          ELSE /\ pc' = [pc EXCEPT ![s] = "done"]
               /\ result' = [result EXCEPT ![s] = Err(MSG_ALREADY_RUNNING)]
    /\ UNCHANGED <<GENERATION_CANCELLED, ACTIVE_CHILD, child, locals, events, cpc,
                   fed, cancelSeen, ended>>
    /\ UNCHANGED harness

\* agent.rs:157: resolve_sidecar_path(...)?
Resolve(s, env) ==
    /\ pc[s] = "resolve"
    /\ \E cands \in env.candidates :
          LET r == resolve_sidecar_path(cands) IN
          IF r.tag = "err"
          THEN /\ result' = [result EXCEPT ![s] = r]
               /\ pc' = [pc EXCEPT ![s] = "drop_guard"]
          ELSE /\ result' = result
               /\ pc' = [pc EXCEPT ![s] = "spawn"]
    /\ UNCHANGED <<globals, child, locals, events, cpc, fed, cancelSeen, ended>>
    /\ UNCHANGED harness

\* agent.rs:158-176: shell.sidecar(), the arguments, spawn()
Spawn(s) ==
    /\ pc[s] = "spawn"
    /\ \/ /\ child' = [child EXCEPT ![s] = "spawned"]
          /\ pc' = [pc EXCEPT ![s] = "publish"]
          /\ result' = result
       \/ /\ child' = child
          /\ pc' = [pc EXCEPT ![s] = "drop_guard"]
          /\ result' = [result EXCEPT ![s] = Err(MSG_SPAWN)]
    /\ UNCHANGED <<globals, locals, events, cpc, fed, cancelSeen, ended>>
    /\ UNCHANGED harness

\* agent.rs:178-188: the handle into the shared slot, ChildCleanup, the locals
Publish(s) ==
    /\ pc[s] = "publish"
    /\ ACTIVE_CHILD' = Some(s)
    /\ ResetLocals(s)
    /\ pc' = [pc EXCEPT ![s] = "loop"]
    /\ UNCHANGED <<GENERATION_CANCELLED, GENERATION_ACTIVE, result, child, events, cpc,
                   fed, cancelSeen, ended>>
    /\ UNCHANGED harness

\* The loop top without the load of GENERATION_CANCELLED
PollWithoutCheck(s) ==
    /\ pc[s] = "loop"
    /\ pc' = [pc EXCEPT ![s] = "recv"]
    /\ UNCHANGED <<globals, result, child, locals, events, cpc, fed, cancelSeen, ended>>
    /\ UNCHANGED harness

\* agent.rs:191: the poll of GENERATION_CANCELLED at the top of the loop
Poll(s) ==
    /\ pc[s] = "loop"
    /\ pc' = [pc EXCEPT ![s] = IF GENERATION_CANCELLED THEN "cancel_kill" ELSE "recv"]
    /\ UNCHANGED <<globals, result, child, locals, events, cpc, fed, cancelSeen, ended>>
    /\ UNCHANGED harness

\* agent.rs:192-193: kill_active_child(); return Err("Generation cancelled")
CancelKill(s) ==
    /\ pc[s] = "cancel_kill"
    /\ LET k == take_and_kill(ACTIVE_CHILD, child) IN
       /\ ACTIVE_CHILD' = k.slot
       /\ child' = k.children
    /\ result' = [result EXCEPT ![s] = Err(MSG_CANCELLED)]
    /\ pc' = [pc EXCEPT ![s] = "drop_child"]
    /\ UNCHANGED <<GENERATION_CANCELLED, GENERATION_ACTIVE, locals, events, cpc, fed,
                   cancelSeen, ended>>
    /\ UNCHANGED harness

\* agent.rs:196-199: the 200 ms timeout elapsed: continue
RecvTimeout(s) ==
    /\ pc[s] = "recv"
    /\ pc' = [pc EXCEPT ![s] = "loop"]
    /\ UNCHANGED <<globals, result, child, locals, events, cpc, fed, cancelSeen, ended>>
    /\ UNCHANGED harness

\* agent.rs:205-216: CommandEvent::Stdout
RecvStdout(s, env) ==
    /\ pc[s] = "recv"
    /\ env.history => Len(fed[s]) < MaxEvents
    /\ \E chunk \in env.chunks :
          LET r == process_sidecar_stdout_chunk(chunk, stdout_buffer[s], html_content[s],
                                                collecting_html[s], error_occurred[s])
          IN  /\ fed' = IF env.history THEN [fed EXCEPT ![s] = Append(@, chunk)] ELSE fed
              /\ stdout_buffer' = [stdout_buffer EXCEPT ![s] = r.buf]
              /\ SetParser(s, r.st)
              /\ IF r.res.tag = "err"
                 THEN /\ result' = [result EXCEPT ![s] = r.res]
                      /\ pc' = [pc EXCEPT ![s] = "kill"]
                 ELSE /\ result' = result
                      /\ pc' = [pc EXCEPT ![s] = "loop"]
    /\ UNCHANGED <<globals, child, events, cpc, cancelSeen, ended>>
    /\ UNCHANGED harness

\* agent.rs:217-220 and 236: CommandEvent::Stderr, and any other event
RecvStderr(s) ==
    /\ pc[s] = "recv"
    /\ pc' = [pc EXCEPT ![s] = "loop"]
    /\ UNCHANGED <<globals, result, child, locals, events, cpc, fed, cancelSeen, ended>>
    /\ UNCHANGED harness

\* agent.rs:221-224: CommandEvent::Error
RecvError(s) ==
    /\ pc[s] = "recv"
    /\ result' = [result EXCEPT ![s] = Err(MSG_RUNTIME)]
    /\ pc' = [pc EXCEPT ![s] = "kill"]
    /\ UNCHANGED <<globals, child, locals, events, cpc, fed, cancelSeen, ended>>
    /\ UNCHANGED harness

\* agent.rs:213 and 222: kill_active_child() before return Err(..)
KillAfterError(s) ==
    /\ pc[s] = "kill"
    /\ LET k == take_and_kill(ACTIVE_CHILD, child) IN
       /\ ACTIVE_CHILD' = k.slot
       /\ child' = k.children
    /\ pc' = [pc EXCEPT ![s] = "drop_child"]
    /\ UNCHANGED <<GENERATION_CANCELLED, GENERATION_ACTIVE, result, locals, events, cpc,
                   fed, cancelSeen, ended>>
    /\ UNCHANGED harness

\* A bug: the generic message even when an error was captured
terminated_result_generic(code, error) ==
    IF code # None /\ code[1] # 0 THEN Some(Err(MsgExit(code[1]))) ELSE None

\* agent.rs:226-233: what a Terminated event with this status.code returns,
\* None when the loop breaks instead
terminated_result(code, error) ==
    IF code # None /\ code[1] # 0
    THEN IF error # None THEN Some(Err(error[1])) ELSE Some(Err(MsgExit(code[1])))
    ELSE None

\* agent.rs:225-235: CommandEvent::Terminated
RecvTerminated(s, env) ==
    /\ pc[s] = "recv"
    /\ \E code \in env.codes :
          /\ LET r == terminated_result(code, error_occurred[s]) IN
             IF r # None
             THEN /\ result' = [result EXCEPT ![s] = r[1]]
                  /\ error_occurred' = [error_occurred EXCEPT ![s] = None]
                  /\ pc' = [pc EXCEPT ![s] = "drop_child"]
             ELSE /\ result' = result
                  /\ error_occurred' = error_occurred
                  /\ pc' = [pc EXCEPT ![s] = "flush"]
          /\ ended' = [ended EXCEPT ![s] = CodeText(code)]
    /\ UNCHANGED <<globals, child, html_content, collecting_html, stdout_buffer, events,
                   cpc, fed, cancelSeen>>
    /\ UNCHANGED harness

\* agent.rs:201: rx.recv() returned None: the channel is closed
RecvClosed(s) ==
    /\ pc[s] = "recv"
    /\ pc' = [pc EXCEPT ![s] = "flush"]
    /\ ended' = [ended EXCEPT ![s] = "closed"]
    /\ UNCHANGED <<globals, result, child, locals, events, cpc, fed, cancelSeen>>
    /\ UNCHANGED harness

\* agent.rs:240-251: the pending partial line goes through the parser
Flush(s) ==
    /\ pc[s] = "flush"
    /\ LET r == flush_trailing(stdout_buffer[s], html_content[s], collecting_html[s],
                               error_occurred[s])
       IN  /\ SetParser(s, r.st)
           /\ stdout_buffer' = [stdout_buffer EXCEPT ![s] = r.buf]
           /\ IF r.res.tag = "err"
              THEN /\ result' = [result EXCEPT ![s] = r.res]
                   /\ pc' = [pc EXCEPT ![s] = "drop_child"]
              ELSE /\ result' = result
                   /\ pc' = [pc EXCEPT ![s] = "finalize"]
    /\ UNCHANGED <<globals, child, events, cpc, fed, cancelSeen, ended>>
    /\ UNCHANGED harness

\* A bug: the accumulator is returned as it is, blank or not
finalize_result_untrimmed(html, error) ==
    IF error # None THEN Err(error[1])
    ELSE IF StrLen(html) > MAX_HTML_BYTES THEN Err(MSG_SIZE)
    ELSE IF html = <<>> THEN Err(MSG_NO_HTML)
    ELSE Ok(html)

\* agent.rs:253-266: what run_sidecar returns once the stream has ended
finalize_result(html, error) ==
    IF error # None THEN Err(error[1])
    ELSE LET final_html == trim(html) IN
         IF StrLen(final_html) > MAX_HTML_BYTES THEN Err(MSG_SIZE)
         ELSE IF final_html = <<>> THEN Err(MSG_NO_HTML)
         ELSE Ok(final_html)

\* agent.rs:253-266; a recorded error is emitted before it is returned
Finalize(s) ==
    /\ pc[s] = "finalize"
    /\ result' = [result EXCEPT ![s] = finalize_result(html_content[s], error_occurred[s])]
    /\ events' = IF error_occurred[s] # None
                 THEN events \cup {GenerationError(error_occurred[s][1])}
                 ELSE events
    /\ error_occurred' = [error_occurred EXCEPT ![s] = None]
    /\ pc' = [pc EXCEPT ![s] = "drop_child"]
    /\ UNCHANGED <<globals, child, html_content, collecting_html, stdout_buffer, cpc,
                   fed, cancelSeen, ended>>
    /\ UNCHANGED harness

\* A bug: the guards declared in the other order, so that the flag is
\* released while the handle is still in the slot
DropChildAfterGuard(s) ==
    /\ pc[s] = "drop_child"
    /\ GENERATION_ACTIVE' = generation_guard_drop
    /\ pc' = [pc EXCEPT ![s] = "drop_guard"]
    /\ UNCHANGED <<GENERATION_CANCELLED, ACTIVE_CHILD, result, child, locals,
                   events, cpc, fed, cancelSeen, ended>>
    /\ UNCHANGED harness

\* agent.rs:49-55: _child_guard, declared last, is dropped first
DropChild(s) ==
    /\ pc[s] = "drop_child"
    /\ ACTIVE_CHILD' = child_cleanup_drop(ACTIVE_CHILD)
    /\ pc' = [pc EXCEPT ![s] = "drop_guard"]
    /\ UNCHANGED <<GENERATION_CANCELLED, GENERATION_ACTIVE, result, child, locals,
                   events, cpc, fed, cancelSeen, ended>>
    /\ UNCHANGED harness

\* agent.rs:68-72: _generation_guard is dropped and run_sidecar has returned;
\* the command goes on (Ok) or returns the error (the ? at agent.rs:337, 379)
DropGuard(s) ==
    /\ pc[s] = "drop_guard"
    /\ GENERATION_ACTIVE' = generation_guard_drop
    /\ ResetLocals(s)
    /\ fed' = [fed EXCEPT ![s] = <<>>]
    /\ IF result[s].tag = "ok"
       THEN /\ pc' = [pc EXCEPT ![s] = "save"]
            /\ cancelSeen' = cancelSeen
       ELSE /\ pc' = [pc EXCEPT ![s] = "done"]
            /\ cancelSeen' = [cancelSeen EXCEPT ![s] = "none"]
    /\ child' = [child EXCEPT ![s] = "none"]
    /\ ended' = [ended EXCEPT ![s] = "running"]
    /\ UNCHANGED <<GENERATION_CANCELLED, ACTIVE_CHILD, result, events, cpc>>
    /\ UNCHANGED harness

\* agent.rs:339 and 381: save_app(...)?
Save(s) ==
    /\ pc[s] = "save"
    /\ \/ /\ pc' = [pc EXCEPT ![s] = "emit"]
          /\ result' = result
          /\ cancelSeen' = cancelSeen
       \/ /\ pc' = [pc EXCEPT ![s] = "done"]
          /\ result' = [result EXCEPT ![s] = Err(MSG_SAVE)]
          /\ cancelSeen' = [cancelSeen EXCEPT ![s] = "none"]
    /\ UNCHANGED <<globals, child, locals, events, cpc, fed, ended>>
    /\ UNCHANGED harness

\* agent.rs:341-346 and 383-385: emit "generation-complete", return Ok(app)
EmitComplete(s) ==
    /\ pc[s] = "emit"
    /\ events' = events \cup {GenerationComplete(s)}
    /\ pc' = [pc EXCEPT ![s] = "done"]
    /\ cancelSeen' = [cancelSeen EXCEPT ![s] = "none"]
    /\ UNCHANGED <<globals, result, child, locals, cpc, fed, ended>>
    /\ UNCHANGED harness

(***************************************************************************)
(* cancel_generation                                                       *)
(***************************************************************************)
\* agent.rs:390: GENERATION_CANCELLED.store(true)
CancelStore ==
    /\ cpc = "idle"
    /\ GENERATION_CANCELLED' = TRUE
    /\ cancelSeen' = [s \in Sessions |->
                        IF pc[s] \in Streaming THEN "streaming"
                        ELSE IF pc[s] \in Holding /\ cancelSeen[s] = "none" THEN "active"
                        ELSE cancelSeen[s]]
    /\ cpc' = "take"
    /\ UNCHANGED <<GENERATION_ACTIVE, ACTIVE_CHILD, pc, result, child, locals, events,
                   fed, ended>>
    /\ UNCHANGED harness

\* agent.rs:391-402: the handle is taken from the slot and killed, then
\* "generation-error" is emitted and Ok(()) returned
CancelTake ==
    /\ cpc = "take"
    /\ LET k == take_and_kill(ACTIVE_CHILD, child) IN
       /\ ACTIVE_CHILD' = k.slot
       /\ child' = k.children
    /\ events' = events \cup {GenerationError(MSG_CANCELLED)}
    /\ cpc' = "idle"
    /\ UNCHANGED <<GENERATION_CANCELLED, GENERATION_ACTIVE, pc, result, locals, fed,
                   cancelSeen, ended>>
    /\ UNCHANGED harness

(***************************************************************************)
(* The framer and the parser on a divided stream                           *)
(***************************************************************************)
\* agent.rs:205-216: the next chunk goes through process_sidecar_stdout_chunk;
\* an Err ends the session
FeedChunk ==
    /\ framer.next <= Len(framer.chunks)
    /\ framer.res.tag = "ok"
    /\ LET r == process_sidecar_stdout_chunk(framer.chunks[framer.next],
                                             framer.stdout_buffer, framer.html_content,
                                             framer.collecting_html, framer.error_occurred)
       IN  framer' = [framer EXCEPT !.next = @ + 1,
                                    !.stdout_buffer = r.buf,
                                    !.html_content = r.st.html_content,
                                    !.collecting_html = r.st.collecting_html,
                                    !.error_occurred = r.st.error_occurred,
                                    !.res = r.res,
                                    !.handed = @ \o r.lines]
    /\ UNCHANGED <<session, resolution, disk, saving, deleting>>

\* agent.rs:240-251: after the last chunk, the final flush
FlushTrailing ==
    /\ framer.next > Len(framer.chunks)
    /\ framer.res.tag = "ok"
    /\ ~framer.flushed
    /\ LET r == flush_trailing(framer.stdout_buffer, framer.html_content,
                               framer.collecting_html, framer.error_occurred)
       IN  framer' = [framer EXCEPT !.flushed = TRUE,
                                    !.trailing = r.lines,
                                    !.stdout_buffer = r.buf,
                                    !.html_content = r.st.html_content,
                                    !.collecting_html = r.st.collecting_html,
                                    !.error_occurred = r.st.error_occurred,
                                    !.res = r.res,
                                    !.handed = @ \o r.lines]
    /\ UNCHANGED <<session, resolution, disk, saving, deleting>>

\* agent.rs:157: resolve_sidecar_path on the candidates
ResolveCandidates ==
    /\ resolution.result = Pending
    /\ resolution' = [resolution EXCEPT !.result = resolve_sidecar_path(resolution.candidates)]
    /\ UNCHANGED <<session, framer, disk, saving, deleting>>

(***************************************************************************)
(* save_app and write_atomic, one file-system call per step                *)
(***************************************************************************)
\* save_app returns Err(message): ? in save_app and in write_atomic
SaveFails(message) ==
    saving' = [saving EXCEPT !.pc = "idle", !.result = Err(message)]

\* apps.rs:156-164: load_index, the entry of the app put into the index,
\* and save_index up to its call of write_atomic. The app is saved with a
\* new revision of its metadata and of its HTML.
SaveApp ==
    /\ saving.pc = "idle"
    /\ saving.calls < MaxSaves
    /\ \E id \in AppIds :
          LET rev == saving.calls + 1
              began == [saving EXCEPT
                          !.calls = rev, !.app = id, !.rev = rev, !.lookup = None,
                          !.before = Stored(disk),
                          !.after = [apps |-> upsert(Stored(disk).apps, id, rev),
                                     html |-> [Stored(disk).html EXCEPT ![id] = Some(rev)]]]
          IN  \/ /\ index_parses(disk)
                 /\ saving' = [began EXCEPT !.pc = "write_tmp",
                                         !.result = Pending,
                                         !.index = upsert(load_index(disk), id, rev),
                                         !.path = get_index_path,
                                         !.contents = upsert(load_index(disk), id, rev)]
              \/ /\ disk[get_index_path] # None
                 /\ saving' = [began EXCEPT !.result = Err(<<"Failed to read apps index: ", "io">>)]
              \/ /\ ~index_parses(disk)
                 /\ saving' = [began EXCEPT !.result = Err(<<"Failed to parse apps index: ", "json">>)]
    /\ disk' = disk
    /\ UNCHANGED <<session, framer, resolution, deleting>>

\* utils.rs:8-21: the parent directory, then fs::write of the temp file; a
\* failed write may leave a part of the contents in it
WriteTmp ==
    /\ saving.pc = "write_tmp"
    /\ \/ /\ disk' = [disk EXCEPT ![tmp_path(saving.path)] = Some(saving.contents)]
          /\ saving' = [saving EXCEPT !.pc = "remove"]
       \/ /\ \/ disk' = disk
             \/ disk' = [disk EXCEPT ![tmp_path(saving.path)] = Some(Truncated(saving.path))]
          /\ SaveFails(MSG_SAVE)
    /\ UNCHANGED <<session, framer, resolution, deleting>>

\* utils.rs:23-25: the file at the path, if there is one, is removed
RemoveExisting ==
    /\ saving.pc = "remove"
    /\ IF disk[saving.path] # None
       THEN \/ /\ disk' = [disk EXCEPT ![saving.path] = None]
               /\ saving' = [saving EXCEPT !.pc = "rename"]
            \/ /\ disk' = disk
               /\ SaveFails(<<"Failed to replace file: ", "io">>)
       ELSE /\ disk' = disk
            /\ saving' = [saving EXCEPT !.pc = "rename"]
    /\ UNCHANGED <<session, framer, resolution, deleting>>

\* utils.rs:27-30: the temp file is renamed to the path; apps.rs:166-169:
\* after the index comes the HTML file, after the HTML file save_app
\* returns Ok
Rename ==
    /\ saving.pc = "rename"
    /\ \/ /\ disk[tmp_path(saving.path)] # None
          /\ disk' = [disk EXCEPT ![saving.path] = disk[tmp_path(saving.path)],
                                  ![tmp_path(saving.path)] = None]
          /\ IF saving.path = get_index_path
             THEN saving' = [saving EXCEPT !.pc = "write_tmp",
                                           !.path = get_app_html_path(saving.app),
                                           !.contents = saving.rev]
             ELSE saving' = [saving EXCEPT !.pc = "idle", !.result = Ok(<<>>)]
       \/ /\ disk' = disk
          /\ SaveFails(<<"Failed to finalize file write: ", "io">>)
    /\ UNCHANGED <<session, framer, resolution, deleting>>

(***************************************************************************)
(* edit_app around its sidecar, and delete_app, one file-system call per   *)
(* step                                                                    *)
(***************************************************************************)
\* agent.rs:365-376: edit_app has found the app in the index and its HTML
\* file, and goes on to run_sidecar
EditApp ==
    /\ saving.pc = "idle"
    /\ saving.lookup = None
    /\ index_parses(disk)
    /\ \E id \in AppIds :
          /\ \E i \in 1..Len(load_index(disk)) : load_index(disk)[i].id = id
          /\ disk[get_app_html_path(id)] # None
          /\ saving' = [saving EXCEPT !.lookup = Some(id), !.result = Pending]
    /\ disk' = disk
    /\ UNCHANGED <<session, framer, resolution, deleting>>

\* agent.rs:377-379: run_sidecar returned Err, edit_app returns it
EditFails ==
    /\ saving.pc = "idle"
    /\ saving.lookup # None
    /\ saving' = [saving EXCEPT !.lookup = None, !.result = Err(MSG_NO_HTML)]
    /\ disk' = disk
    /\ UNCHANGED <<session, framer, resolution, deleting>>

\* agent.rs:381: run_sidecar returned Ok, edit_app calls save_app with the
\* app it found before the sidecar ran
SaveEdited ==
    /\ saving.lookup # None
    /\ SaveApp
    /\ saving'.app = saving.lookup[1]

\* delete_app returns Err(message): ? in delete_app and in write_atomic
DeleteFails(message) ==
    deleting' = [deleting EXCEPT !.pc = "idle", !.result = Err(message),
                                 !.app = 0, !.contents = <<>>]

\* apps.rs:131-137: load_index, the entry taken out of the index or
\* "App not found", and save_index up to its call of write_atomic
DeleteApp ==
    /\ deleting.pc = "idle"
    /\ deleting.calls < MaxDeletes
    /\ \E id \in AppIds :
          LET began == [deleting EXCEPT !.calls = @ + 1]
              failed(message) == [began EXCEPT !.result = Err(message)]
          IN  \/ /\ index_parses(disk)
                 /\ IF remove(load_index(disk), id) = None
                    THEN deleting' = failed(MSG_APP_NOT_FOUND)
                    ELSE deleting' = [began EXCEPT
                                        !.pc = "write_tmp", !.app = id, !.result = Pending,
                                        !.contents = remove(load_index(disk), id)[1]]
              \/ /\ disk[get_index_path] # None
                 /\ deleting' = failed(<<"Failed to read apps index: ", "io">>)
              \/ /\ ~index_parses(disk)
                 /\ deleting' = failed(<<"Failed to parse apps index: ", "json">>)
    /\ disk' = disk
    /\ UNCHANGED <<session, framer, resolution, saving>>

\* utils.rs:8-21, for the index without the app
DeleteWriteTmp ==
    /\ deleting.pc = "write_tmp"
    /\ \/ /\ disk' = [disk EXCEPT ![tmp_path(get_index_path)] = Some(deleting.contents)]
          /\ deleting' = [deleting EXCEPT !.pc = "remove"]
       \/ /\ \/ disk' = disk
             \/ disk' = [disk EXCEPT ![tmp_path(get_index_path)] =
                                         Some(Truncated(get_index_path))]
          /\ DeleteFails(MSG_SAVE)
    /\ UNCHANGED <<session, framer, resolution, saving>>

\* utils.rs:23-25
DeleteRemoveExisting ==
    /\ deleting.pc = "remove"
    /\ IF disk[get_index_path] # None
       THEN \/ /\ disk' = [disk EXCEPT ![get_index_path] = None]
               /\ deleting' = [deleting EXCEPT !.pc = "rename"]
            \/ /\ disk' = disk
               /\ DeleteFails(<<"Failed to replace file: ", "io">>)
       ELSE /\ disk' = disk
            /\ deleting' = [deleting EXCEPT !.pc = "rename"]
    /\ UNCHANGED <<session, framer, resolution, saving>>

\* utils.rs:27-30: the rename, which fails when the temp file is gone
DeleteRename ==
    /\ deleting.pc = "rename"
    /\ \/ /\ disk[tmp_path(get_index_path)] # None
          /\ disk' = [disk EXCEPT ![get_index_path] = disk[tmp_path(get_index_path)],
                                  ![tmp_path(get_index_path)] = None]
          /\ deleting' = [deleting EXCEPT !.pc = "remove_html"]
       \/ /\ disk' = disk
          /\ DeleteFails(<<"Failed to finalize file write: ", "io">>)
    /\ UNCHANGED <<session, framer, resolution, saving>>

\* apps.rs:139-143: the HTML file, if there is one, is removed
DeleteHtml ==
    /\ deleting.pc = "remove_html"
    /\ IF disk[get_app_html_path(deleting.app)] # None
       THEN \/ /\ disk' = [disk EXCEPT ![get_app_html_path(deleting.app)] = None]
               /\ deleting' = [deleting EXCEPT !.pc = "storage"]
            \/ /\ disk' = disk
               /\ DeleteFails(<<"Failed to delete app HTML: ", "io">>)
       ELSE /\ disk' = disk
            /\ deleting' = [deleting EXCEPT !.pc = "storage"]
    /\ UNCHANGED <<session, framer, resolution, saving>>

\* apps.rs:146-148, storage.rs:89-95: delete_storage_file, then Ok(())
DeleteStorage ==
    /\ deleting.pc = "storage"
    /\ LET returned == [deleting EXCEPT !.pc = "idle", !.result = Ok(<<>>),
                                        !.app = 0, !.contents = <<>>,
                                        !.deleted = @ \cup {deleting.app}]
       IN  IF disk[get_storage_path(deleting.app)] # None
           THEN \/ /\ disk' = [disk EXCEPT ![get_storage_path(deleting.app)] = None]
                   /\ deleting' = returned
                \/ /\ disk' = disk
                   /\ DeleteFails(<<"Failed to delete storage file: ", "io">>)
           ELSE /\ disk' = disk
                /\ deleting' = returned
    /\ UNCHANGED <<session, framer, resolution, saving>>

(***************************************************************************)
(* Specification                                                           *)
(***************************************************************************)
\* One step of request s
SessionStep(s, env) ==
    \/ Start(s, env)
    \/ Acquire(s)
    \/ Resolve(s, env)
    \/ Spawn(s)
    \/ Publish(s)
    \/ Poll(s)
    \/ CancelKill(s)
    \/ RecvTimeout(s)
    \/ RecvStdout(s, env)
    \/ RecvStderr(s)
    \/ RecvError(s)
    \/ KillAfterError(s)
    \/ RecvTerminated(s, env)
    \/ RecvClosed(s)
    \/ Flush(s)
    \/ Finalize(s)
    \/ DropChild(s)
    \/ DropGuard(s)
    \/ Save(s)
    \/ EmitComplete(s)

\* Concurrent requests and cancel_generation
Next ==
    \/ \E s \in Sessions : SessionStep(s, Lean)
    \/ CancelStore
    \/ CancelTake

Spec == Init /\ [][Next]_vars

\* What run_sidecar does by itself once it is in the loop: the task is
\* scheduled, and the 200 ms timeout of agent.rs:196-199 ends a recv no event
\* arrives for. The events of the sidecar are under no such obligation.
Unwinding(s) ==
    \/ CancelKill(s)
    \/ KillAfterError(s)
    \/ Flush(s)
    \/ Finalize(s)
    \/ DropChild(s)
    \/ DropGuard(s)

Fairness ==
    \A s \in Sessions :
        /\ WF_vars(Poll(s))
        /\ WF_vars(RecvTimeout(s))
        /\ WF_vars(Unwinding(s))

SpecLive == Init /\ [][Next]_vars /\ Fairness

\* One request, over every input, and cancel_generation
NextSolo ==
    \/ SessionStep(1, Rich)
    \/ CancelStore
    \/ CancelTake

SpecSolo == Init /\ [][NextSolo]_vars

\* A stream, divided into chunks, through the framer and the parser
InitFramer ==
    /\ InitSession
    /\ \E stream \in Streams : \E chunks \in Divisions(stream) :
          framer = FramerStart(chunks)
    /\ resolution = ResolutionStart(<<>>)
    /\ disk = EmptyDisk
    /\ saving = SavingStart
    /\ deleting = DeletingStart

NextFramer ==
    \/ FeedChunk
    \/ FlushTrailing

SpecFramer == InitFramer /\ [][NextFramer]_vars

\* resolve_sidecar_path over every state of the three candidates
InitResolve ==
    /\ InitSession
    /\ framer = FramerStart(<<>>)
    /\ \E cands \in CandidateLists : resolution = ResolutionStart(cands)
    /\ disk = EmptyDisk
    /\ saving = SavingStart
    /\ deleting = DeletingStart

NextResolve == ResolveCandidates

SpecResolve == InitResolve /\ [][NextResolve]_vars

\* Calls of save_app, one after the other, on an apps directory that starts
\* empty
NextStore ==
    \/ SaveApp
    \/ WriteTmp
    \/ RemoveExisting
    \/ Rename

SpecStore == Init /\ [][NextStore]_vars

\* delete_app, called at any time, and edit_app with its save_app, on an apps
\* directory that holds every app
InitDelete ==
    /\ InitSession
    /\ framer = FramerStart(<<>>)
    /\ resolution = ResolutionStart(<<>>)
    /\ \E storing \in SUBSET AppIds : disk = GeneratedDisk(storing)
    /\ saving = SavingStart
    /\ deleting = DeletingStart

NextDelete ==
    \/ EditApp
    \/ EditFails
    \/ SaveEdited
    \/ WriteTmp
    \/ RemoveExisting
    \/ Rename
    \/ DeleteApp
    \/ DeleteWriteTmp
    \/ DeleteRemoveExisting
    \/ DeleteRename
    \/ DeleteHtml
    \/ DeleteStorage

SpecDelete == InitDelete /\ [][NextDelete]_vars

(***************************************************************************)
(* What the stream of a session says, read off the recorded chunks without *)
(* the parser                                                              *)
(***************************************************************************)
\* The text of the chunks, each decoded on its own
RECURSIVE StreamText(_)
StreamText(chunks) ==
    IF chunks = <<>> THEN <<>>
    ELSE from_utf8_lossy(Head(chunks)) \o StreamText(Tail(chunks))

\* The text split at every "\n"; the last element is what follows the last
\* newline
RECURSIVE SplitLines(_)
SplitLines(text) ==
    LET i == find_newline(text) IN
    IF i = 0 THEN <<text>>
    ELSE <<SubSeq(text, 1, i - 1)>> \o SplitLines(SubSeq(text, i + 1, Len(text)))

\* The lines that ended with a newline
CompleteLines(text) == SubSeq(SplitLines(text), 1, Len(SplitLines(text)) - 1)

IsErrorLine(line) == starts_with(trim(line), ERROR_PREFIX)

\* The text after "ERROR:" of the first ERROR: line, if there is one
FirstError(lines) ==
    IF \E i \in 1..Len(lines) : IsErrorLine(lines[i])
    THEN LET i == CHOOSE k \in 1..Len(lines) :
                     IsErrorLine(lines[k]) /\ \A j \in 1..(k - 1) : ~IsErrorLine(lines[j])
         IN  Some(SubSeq(trim(lines[i]), Len(ERROR_PREFIX) + 1, Len(trim(lines[i]))))
    ELSE None

\* run_sidecar has decided its result and has not yet returned
Returning == {"drop_child", "drop_guard"}
\* The stream ended without a nonzero exit code
CleanEnd == {"closed", "none", "0"}

(***************************************************************************)
(* Claims                                                                  *)
(***************************************************************************)

\* C1: under any interleaving of requests, at most one session is between a
\* successful GenerationGuard::acquire and the drop of that guard.
C1_SingleFlight == Cardinality({s \in Sessions : pc[s] \in Holding}) <= 1

\* A second request reaches acquire while a session is streaming.
C1_Witness ==
    \E s, t \in Sessions : s # t /\ pc[s] \in Streaming /\ pc[t] = "acquire"

\* C2: whenever a session that acquired the flag ends, with whatever
\* outcome, the slot is empty before the guard is dropped, and once no
\* session holds the guard GENERATION_ACTIVE is false and the slot is empty,
\* so the next acquire succeeds.
C2_ReleasedOnEveryOutcome ==
    /\ \A s \in Sessions : pc[s] = "drop_guard" => ACTIVE_CHILD = None
    /\ (\A s \in Sessions : pc[s] \notin Holding) =>
          (GENERATION_ACTIVE = FALSE /\ ACTIVE_CHILD = None)

\* Two sessions have ended, one cancelled and one over the size limit, and
\* nothing is held.
C2_Witness ==
    \E s, t \in Sessions :
        /\ pc[s] = "done" /\ result[s] = Err(MSG_CANCELLED)
        /\ pc[t] = "done" /\ result[t] = Err(MSG_SIZE)

\* C3: a session during whose Streaming cancel_generation stored the flag
\* ends with "Generation cancelled", whichever of its poll and the child's
\* termination event comes first.
C3_CancelDuringStreamingEndsCancelled ==
    \A s \in Sessions :
        (cancelSeen[s] = "streaming" /\ result[s] # Pending) =>
            result[s] = Err(MSG_CANCELLED)

\* C4: a request that reaches acquire while another session holds the guard
\* returns "Another generation is already running" in that step, without a
\* sidecar and without touching the flag or the slot; when no other session
\* holds the guard, whatever the earlier sessions' outcomes, it acquires it.
C4_RejectedOrAcquired ==
    [][\A s \in Sessions :
          (pc[s] = "acquire" /\ pc'[s] # "acquire") =>
              IF \E t \in Sessions : t # s /\ pc[t] \in Holding
              THEN /\ pc'[s] = "done"
                   /\ result'[s] = Err(MSG_ALREADY_RUNNING)
                   /\ child'[s] = "none"
                   /\ UNCHANGED <<GENERATION_ACTIVE, ACTIVE_CHILD>>
              ELSE /\ pc'[s] = "resolve"
                   /\ GENERATION_ACTIVE' = TRUE]_vars

\* A request was rejected while the other session still holds the guard.
C4_Witness ==
    \E s, t \in Sessions :
        /\ pc[s] = "done" /\ result[s] = Err(MSG_ALREADY_RUNNING)
        /\ pc[t] \in Holding /\ child[t] = "spawned"

\* C5: once cancel_generation has set the flag during an active session, no
\* step clears it while that session has not yet seen it at a poll.
C5_CancelFlagKeptUntilSeen ==
    [][\A s \in Sessions :
          (/\ GENERATION_CANCELLED
           /\ cancelSeen[s] # "none"
           /\ pc[s] \in {"resolve", "spawn", "publish", "loop", "recv"}
           /\ pc'[s] \in {"resolve", "spawn", "publish", "loop", "recv"})
          => GENERATION_CANCELLED']_vars

\* C6: a step of cancel_generation while no generation is active changes
\* nothing but the cancellation flag: no handle is taken or killed and
\* nothing is emitted; and a request started afterwards begins with the flag
\* cleared.
C6_IdleCancelOnlySetsFlag ==
    [][/\ (cpc' # cpc /\ \A s \in Sessions : pc[s] \notin Holding) =>
             UNCHANGED <<GENERATION_ACTIVE, ACTIVE_CHILD, child, events, pc, result>>
       /\ \A s \in Sessions :
             (pc[s] = "idle" /\ pc'[s] # "idle") => GENERATION_CANCELLED' = FALSE]_vars

\* C7: a request that has returned Ok has emitted generation-complete with
\* its app, and a request that has returned Err has had generation-error
\* emitted with that error's message.
C7_EveryOutcomeNotified ==
    \A s \in Sessions :
        pc[s] = "done" =>
            /\ result[s].tag = "ok" => GenerationComplete(s) \in events
            /\ result[s].tag = "err" => GenerationError(result[s].val) \in events

\* C8: run_sidecar returns Ok only after a clean end of the stream, with no
\* ERROR: line in it, and then returns the trimmed accumulator, non-empty
\* and within the cap; when the stream ended cleanly, the flush succeeded
\* and no ERROR: line was seen, a blank accumulator gives "No HTML content
\* generated".
C8_SucceededOnlyWithContent ==
    \A s \in Sessions :
        pc[s] \in Returning =>
            /\ result[s].tag = "ok" =>
                  /\ ended[s] \in CleanEnd
                  /\ FirstError(SplitLines(StreamText(fed[s]))) = None
                  /\ result[s].val = trim(html_content[s])
                  /\ result[s].val # <<>>
                  /\ StrLen(result[s].val) <= MAX_HTML_BYTES
            /\ (/\ ended[s] \in CleanEnd
                /\ stdout_buffer[s] = <<>>
                /\ FirstError(SplitLines(StreamText(fed[s]))) = None
                /\ trim(html_content[s]) = <<>>)
               => result[s] = Err(MSG_NO_HTML)

\* A success whose accumulator had to be trimmed.
C8_Witness ==
    \E s \in Sessions :
        /\ pc[s] = "drop_child"
        /\ html_content[s] = <<" ", "a">>
        /\ result[s] = Ok(<<"a">>)

\* C9: after a Terminated event with a nonzero code N run_sidecar returns
\* Err, with the error of the first ERROR: line received if there was one
\* and "Sidecar exited with code N" otherwise.
C9_NonzeroExitMessage ==
    \A s \in Sessions :
        (pc[s] \in Returning /\ ended[s] \notin CleanEnd \cup {"running"}) =>
            LET captured == FirstError(CompleteLines(StreamText(fed[s]))) IN
            result[s] = Err(IF captured # None THEN captured[1]
                            ELSE <<"Sidecar exited with code ", ended[s]>>)

\* The sidecar printed an ERROR: line and exited with code 1.
C9_Witness ==
    \E s \in Sessions :
        pc[s] = "drop_child" /\ ended[s] = "1" /\ result[s] = Err(<<"e">>)

\* C10: while a session streams, its captured error is the text after the
\* prefix of the first ERROR: line received, whatever ERROR: lines follow,
\* also after the final flush; and no line of the accumulator is an ERROR:
\* line.
C10_FirstErrorWins ==
    \A s \in Sessions :
        /\ pc[s] \in {"loop", "recv", "cancel_kill", "flush"} =>
              error_occurred[s] = FirstError(CompleteLines(StreamText(fed[s])))
        /\ pc[s] = "finalize" =>
              error_occurred[s] = FirstError(SplitLines(StreamText(fed[s])))
        /\ html_content[s] # <<>> =>
              \A i \in 1..Len(SplitLines(html_content[s])) :
                  ~IsErrorLine(SplitLines(html_content[s])[i])

\* Inside the HTML region, a second ERROR: line has followed the first.
C10_Witness ==
    \E s \in Sessions :
        /\ pc[s] = "loop"
        /\ collecting_html[s]
        /\ html_content[s] # <<>>
        /\ Len(fed[s]) = 3
        /\ IsErrorLine(SplitLines(StreamText(<<fed[s][2]>>))[1])
        /\ IsErrorLine(SplitLines(StreamText(<<fed[s][3]>>))[1])
        /\ fed[s][2] # fed[s][3]
        /\ error_occurred[s] = Some(<<"e">>)

(***************************************************************************)
(* What the lines handed to the parser say, read off without the parser    *)
(***************************************************************************)
\* The lines the parser accepted: all that were handed to it but the one it
\* refused
Accepted ==
    IF framer.res.tag = "err"
    THEN SubSeq(framer.handed, 1, Len(framer.handed) - 1)
    ELSE framer.handed

\* The bytes the sidecar wrote
RECURSIVE Flatten(_)
Flatten(seqs) == IF seqs = <<>> THEN <<>> ELSE Head(seqs) \o Flatten(Tail(seqs))

IsMarkerLine(line) ==
    \/ starts_with(trim(line), PROGRESS_PREFIX)
    \/ trim(line) = HTML_START
    \/ trim(line) = HTML_END
    \/ starts_with(trim(line), ERROR_PREFIX)

\* The lines received inside the HTML region that are no marker lines
RECURSIVE ContentLines(_, _)
ContentLines(lines, inside) ==
    IF lines = <<>> THEN <<>>
    ELSE IF IsMarkerLine(Head(lines))
         THEN ContentLines(Tail(lines),
                           IF trim(Head(lines)) = HTML_START THEN TRUE
                           ELSE IF trim(Head(lines)) = HTML_END THEN FALSE
                           ELSE inside)
         ELSE (IF inside THEN <<Head(lines)>> ELSE <<>>)
                  \o ContentLines(Tail(lines), inside)

\* Whether the lines end inside the HTML region
RECURSIVE EndsInside(_, _)
EndsInside(lines, inside) ==
    IF lines = <<>> THEN inside
    ELSE EndsInside(Tail(lines),
                    IF trim(Head(lines)) = HTML_START THEN TRUE
                    ELSE IF trim(Head(lines)) = HTML_END THEN FALSE
                    ELSE inside)

RECURSIVE JoinLines(_)
JoinLines(lines) ==
    IF lines = <<>> THEN <<>>
    ELSE IF Len(lines) = 1 THEN lines[1]
    ELSE lines[1] \o <<"\n">> \o JoinLines(Tail(lines))

RECURSIVE DropLeadingEmpty(_)
DropLeadingEmpty(lines) ==
    IF lines # <<>> /\ Head(lines) = <<>> THEN DropLeadingEmpty(Tail(lines)) ELSE lines

\* The content lines from the first on, each appended when the length so
\* far, the line and the separator stay within the cap; fits: whether the
\* last one did
RECURSIVE AppendWithinCap(_, _)
AppendWithinCap(content, acc) ==
    IF content = <<>> THEN [acc |-> acc, fits |-> TRUE]
    ELSE LET separator == IF acc = <<>> THEN 0 ELSE 1 IN
         IF StrLen(acc) + StrLen(Head(content)) + separator <= MAX_HTML_BYTES
         THEN AppendWithinCap(Tail(content),
                              IF acc = <<>> THEN Head(content)
                              ELSE acc \o <<"\n">> \o Head(content))
         ELSE [acc |-> acc, fits |-> FALSE]

\* The text with every "\r\n" replaced by "\n"
RECURSIVE Normalize(_)
Normalize(text) ==
    IF text = <<>> THEN <<>>
    ELSE IF Len(text) >= 2 /\ text[1] = "\r" /\ text[2] = "\n"
         THEN <<"\n">> \o Normalize(SubSeq(text, 3, Len(text)))
         ELSE <<Head(text)>> \o Normalize(Tail(text))

\* The framed lines, each followed by "\n", then the flushed line
RECURSIVE Terminated(_)
Terminated(lines) ==
    IF lines = <<>> THEN <<>> ELSE Head(lines) \o <<"\n">> \o Terminated(Tail(lines))

Reconstructed ==
    Terminated(SubSeq(framer.handed, 1, Len(framer.handed) - Len(framer.trailing)))
        \o Flatten(framer.trailing)

Markers == {HTML_START, HTML_END, ERROR_PREFIX, PROGRESS_PREFIX}

\* The stream has a marker at p..q and is cut after a byte before q
CutInsideMarker(stream, cut) ==
    \E m \in Markers : \E p \in 1..Len(stream) :
        /\ p + Len(m) - 1 <= Len(stream)
        /\ SubSeq(stream, p, p + Len(m) - 1) = m
        /\ p <= cut
        /\ cut < p + Len(m) - 1

\* C11: when the first ERROR: line handed to the parser has nothing after
\* the prefix, the recorded error is a non-empty placeholder message.
C11_EmptyErrorGetsPlaceholder ==
    FirstError(framer.handed) = Some(<<>>) =>
        (framer.error_occurred # None /\ framer.error_occurred # Some(<<>>))

\* C12: the accumulator is the content lines appended one by one while the
\* length so far, the line and the separator stay within the cap; the
\* parser returns "Generated HTML exceeded size limit" exactly when the last
\* line handed to it does not fit, and then the accumulator, the inside-HTML
\* flag and the captured error are as before that line; the accumulator never
\* passes the cap, for framed lines and for the final flush.
C12_SizeCap ==
    LET content == ContentLines(framer.handed, FALSE)
        within == AppendWithinCap(content, <<>>)
    IN  /\ StrLen(framer.html_content) <= MAX_HTML_BYTES
        /\ framer.html_content = within.acc
        /\ (framer.res = Err(MSG_SIZE)) <=> ~within.fits
        /\ framer.res.tag = "err" =>
              /\ framer.res = Err(MSG_SIZE)
              /\ framer.collecting_html = EndsInside(Accepted, FALSE)
              /\ framer.error_occurred = FirstError(Accepted)

\* The final flush handed a line that does not fit.
C12_Witness ==
    /\ framer.flushed
    /\ framer.res = Err(MSG_SIZE)
    /\ framer.html_content = <<"a", "b">>
    /\ framer.stdout_buffer = <<"a", "b", "c">>

\* C13 as stated: the accumulator equals the content lines, untrimmed and in
\* arrival order, joined by single "\n" separators.
C13_AccumulatorIsJoinedContent ==
    framer.res.tag = "ok" =>
        framer.html_content = JoinLines(ContentLines(framer.handed, FALSE))

\* C13 amended: the accumulator equals the content lines the parser
\* accepted, without the empty ones that arrived while it was still empty,
\* untrimmed and in arrival order, joined by single "\n" separators.
C13_AccumulatorIsJoinedContentAmended ==
    framer.html_content = JoinLines(DropLeadingEmpty(ContentLines(Accepted, FALSE)))

\* An empty content line came first, a second content line followed.
C13_Witness ==
    /\ framer.res.tag = "ok"
    /\ ContentLines(framer.handed, FALSE) = << <<>>, <<"a", "b">> >>
    /\ framer.html_content = <<"a", "b">>

\* C14: when a stream is fed in two chunks, cut inside a marker, the
\* accumulator, the inside-HTML flag, the captured error, the pending buffer
\* and the Result after both chunks are those after the same stream fed as
\* one chunk.
C14_SplitMarkerSameAsUnsplit ==
    (/\ Len(framer.chunks) = 2
     /\ framer.next = 3
     /\ ~framer.flushed
     /\ CutInsideMarker(Flatten(framer.chunks), Len(framer.chunks[1])))
    => LET whole == process_sidecar_stdout_chunk(Flatten(framer.chunks),
                                                 <<>>, <<>>, FALSE, None)
       IN  /\ framer.res = whole.res
           /\ framer.stdout_buffer = whole.buf
           /\ framer.html_content = whole.st.html_content
           /\ framer.collecting_html = whole.st.collecting_html
           /\ framer.error_occurred = whole.st.error_occurred

\* HTML_START was cut in two and the content line after it was appended.
C14_Witness ==
    /\ Len(framer.chunks) = 2
    /\ framer.next = 3
    /\ ~framer.flushed
    /\ framer.chunks[1] = SubSeq(HTML_START, 1, 8)
    /\ framer.collecting_html
    /\ framer.html_content # <<>>

\* C15: after the final flush, the lines handed to the parser, each framed
\* line followed by "\n" and then the flushed line, are the content of the
\* stream with every "\r\n" replaced by "\n".
C15_FramingRoundTrip ==
    (framer.flushed /\ framer.res.tag = "ok") =>
        Reconstructed = Normalize(from_utf8_lossy(Flatten(framer.chunks)))

\* The errors validate_name_prompt returns
ValidationErrors == {v \in ValidationResults(Names, Prompts) : v.tag = "err"}

\* C16: a request whose trimmed name or prompt fails validate_name_prompt
\* returns the validation error in the step that validates it, and that step
\* changes neither GENERATION_ACTIVE nor the shared slot and spawns nothing.
C16_ValidationBeforeAcquire ==
    [][\A s \in Sessions :
          (pc[s] = "idle" /\ result'[s] \in ValidationErrors) =>
              /\ pc'[s] = "done"
              /\ UNCHANGED <<GENERATION_ACTIVE, ACTIVE_CHILD, child>>]_vars

\* A request failed validation while the other request streams.
C16_Witness ==
    \E s, t \in Sessions :
        /\ pc[s] = "done" /\ result[s] = Err(<<"App name is required">>)
        /\ child[s] = "none"
        /\ pc[t] \in Streaming /\ ACTIVE_CHILD = Some(t)

\* C18: resolve_sidecar_path returns the first candidate that exists when
\* it is an executable regular file, fails when the first candidate that
\* exists is anything else, whatever the later candidates are, and reports
\* the sidecar as not found only when no candidate exists.
C18_FirstExistingCandidate ==
    resolution.result # Pending =>
        LET c == resolution.candidates
            existing == {i \in 1..Len(c) : c[i] # "missing"}
        IN  IF existing = {}
            THEN resolution.result = Err(MSG_NOT_FOUND)
            ELSE LET first == CHOOSE i \in existing : \A j \in existing : i <= j
                 IN  IF c[first] = "executable"
                     THEN resolution.result = Ok(<<first>>)
                     ELSE /\ resolution.result.tag = "err"
                          /\ resolution.result # Err(MSG_NOT_FOUND)

\* The second candidate exists without an executable bit, the third is
\* fine: the resolution fails.
C18_Witness ==
    /\ resolution.candidates = <<"missing", "not_executable", "executable">>
    /\ resolution.result = Err(MSG_NOT_EXEC)

\* C19: when the stream of a session has ended, its outcome is decided only
\* by the final flush or after it, or with nothing pending in the framing
\* buffer.
C19_FlushOnEveryStreamEnd ==
    [][\A s \in Sessions :
          (result[s] = Pending /\ result'[s] # Pending /\ ended'[s] # "running") =>
              (pc[s] \in {"flush", "finalize"} \/ stdout_buffer[s] = <<>>)]_vars

\* C20: a session that has left the loop because it saw the cancellation,
\* because the parser reported an overflow or because of an error event
\* handles no further event, and its next step empties the shared slot with
\* the child killed, before run_sidecar returns.
C20_KilledBeforeReturn ==
    [][\A s \in Sessions :
          pc[s] \in {"cancel_kill", "kill"} =>
              /\ ended'[s] = "running"
              /\ <<html_content'[s], collecting_html'[s], error_occurred'[s],
                   stdout_buffer'[s]>>
                     = <<html_content[s], collecting_html[s], error_occurred[s],
                         stdout_buffer[s]>>
              /\ \/ pc'[s] = pc[s]
                 \/ /\ pc'[s] = "drop_child"
                    /\ result'[s] \in {Err(MSG_CANCELLED), Err(MSG_SIZE), Err(MSG_RUNTIME)}
                    /\ child'[s] = "killed"
                    /\ ACTIVE_CHILD' = None]_vars

\* The parser reported an overflow and the child has been killed.
C20_Witness ==
    \E s \in Sessions :
        /\ pc[s] = "drop_child"
        /\ result[s] = Err(MSG_SIZE)
        /\ ended[s] = "running"
        /\ child[s] = "killed"
        /\ ACTIVE_CHILD = None

\* C17: at every point of a call of save_app, and after it has returned Ok
\* or Err, what is stored is either the state before the call or that state
\* with the app's index entry and its complete HTML payload.
C17_SaveAllOrNothing == Stored(disk) \in {saving.before, saving.after}


\* C21: a session in the event loop while GENERATION_CANCELLED is set either
\* leaves run_sidecar (its guard released) or is still in the loop at a moment
\* the flag is no longer set. No event of the sidecar is needed: the timeout
\* of recv brings the loop back to the load of the flag.
C21_CancelledSessionEnds ==
    \A s \in Sessions :
        (pc[s] \in Streaming /\ GENERATION_CANCELLED)
            ~> (pc[s] \notin Holding \/ (pc[s] \in Streaming /\ ~GENERATION_CANCELLED))

\* The loop saw the flag while the child was still running and in the slot: no
\* event of the sidecar and no kill by cancel_generation preceded the return.
C21_Witness ==
    \E s \in Sessions :
        /\ pc[s] = "cancel_kill"
        /\ GENERATION_CANCELLED
        /\ cpc = "take"
        /\ ACTIVE_CHILD = Some(s)
        /\ child[s] = "spawned"
        /\ ended[s] = "running"
        /\ fed[s] = <<>>


\* A line that is a PROGRESS: line, or that is no marker line and is received
\* outside the HTML region
QuietLine(line, inside) ==
    \/ starts_with(trim(line), PROGRESS_PREFIX)
    \/ ~inside /\ ~IsMarkerLine(line)

\* C22: a stdout chunk whose complete lines are all PROGRESS: lines (inside or
\* outside the HTML region) or non-marker lines received outside the region,
\* and any stderr chunk, leave the accumulator, the inside-HTML flag and the
\* captured error as they were.
C22_QuietInputKeepsParserState ==
    [][\A s \in Sessions :
          (pc[s] = "recv" /\ pc'[s] \in {"loop", "kill"})
              => /\ fed'[s] = fed[s]
                      => <<html_content[s], collecting_html[s], error_occurred[s]>>'
                             = <<html_content[s], collecting_html[s], error_occurred[s]>>
                 /\ \A chunk \in Chunks :
                        LET lines == CompleteLines(stdout_buffer[s] \o from_utf8_lossy(chunk))
                        IN  (/\ fed'[s] = Append(fed[s], chunk)
                             /\ \A i \in 1..Len(lines) : QuietLine(lines[i], collecting_html[s]))
                                => <<html_content[s], collecting_html[s], error_occurred[s]>>'
                                      = <<html_content[s], collecting_html[s],
                                          error_occurred[s]>>]_vars

\* Inside the HTML region, with content in the accumulator, a line of text
\* outside the region was followed by a PROGRESS: line inside it.
C22_Witness ==
    \E s \in Sessions :
        /\ pc[s] = "loop"
        /\ fed[s] = << <<"b", "\n">>,
                       HTML_START \o <<"\n", " ", "a", "\n">>,
                       PROGRESS_PREFIX \o <<"p", "\n">> >>
        /\ collecting_html[s]
        /\ html_content[s] = <<" ", "a">>
        /\ error_occurred[s] = None


\* C23: for a request during whose Streaming cancel_generation stored the
\* flag, save_app is not executed and no "generation-complete" is emitted,
\* whatever exit status the killed child reports.
C23_CancelledNeverPersists ==
    [][\A s \in Sessions :
          cancelSeen[s] = "streaming" =>
              /\ ~(pc[s] = "save" /\ pc'[s] # "save")
              /\ GenerationComplete(s) \in events' => GenerationComplete(s) \in events]_vars


\* The slot holds no handle, or GENERATION_ACTIVE is set and the handle is
\* that of the one session between its acquire and the drop of its guard
SlotBelongsToHolder ==
    ACTIVE_CHILD # None =>
        /\ GENERATION_ACTIVE
        /\ pc[ACTIVE_CHILD[1]] \in Holding
        /\ child[ACTIVE_CHILD[1]] # "none"
        /\ \A t \in Sessions : pc[t] \in Holding => ACTIVE_CHILD = Some(t)

\* C24: in every reachable state a handle in the shared slot means that
\* GENERATION_ACTIVE is set and that the handle is the child of the session
\* holding the flag; and a step that kills a child or empties the slot,
\* whether of cancel_generation or of a session's return, acts on the child
\* of the session holding the flag, a session's step on its own child.
C24_SlotOnlyUnderFlag ==
    [][/\ SlotBelongsToHolder'
       /\ \A t \in Sessions :
             (child'[t] # child[t] \/ (ACTIVE_CHILD = Some(t) /\ ACTIVE_CHILD' # Some(t)))
                 => /\ pc[t] \in Holding
                    /\ GENERATION_ACTIVE
                    /\ \A s \in Sessions : pc'[s] # pc[s] => s = t]_vars

\* The first session's child is in the slot while the second request, having
\* been refused the flag, has returned, and cancel_generation is about to
\* take the handle.
C24_Witness ==
    \E s, t \in Sessions :
        /\ s # t
        /\ ACTIVE_CHILD = Some(s)
        /\ GENERATION_ACTIVE
        /\ pc[s] = "recv"
        /\ child[s] = "spawned"
        /\ pc[t] = "done"
        /\ result[t] = Err(MSG_ALREADY_RUNNING)
        /\ cpc = "take"


\* C25: an app delete_app has returned Ok for is absent from the index and
\* has no HTML file, and stays so while an edit_app of that app that was in
\* flight comes to its save_app.
C25_DeletedStaysDeleted ==
    \A id \in deleting.deleted :
        /\ \A i \in 1..Len(Stored(disk).apps) : Stored(disk).apps[i].id # id
        /\ Stored(disk).html[id] = None

=============================================================================
